---------------------------- MODULE Spec2Model ----------------------------
(***************************************************************************)
(* The two Streamlit dashboards of indian-market-dashboard as one state    *)
(* machine.                                                                *)
(*                                                                         *)
(*   src/indian_dashboard_advanced.py  several symbols, summary table,     *)
(*                                     desktop alert on a signal change    *)
(*   src/indian_dashboard.py           one symbol, metric and chart        *)
(*                                                                         *)
(* indian_dashboard_advanced.py holds an unresolved merge: lines 2-123     *)
(* (HEAD) and lines 125-246 are the same script twice.  The model follows  *)
(* the HEAD copy, the one the line numbers below refer to.                 *)
(*                                                                         *)
(* `app` says which script is running.  Every call to a collaborator       *)
(* (yf.download, the pandas computation, notification.notify,              *)
(* st.plotly_chart, the table widgets) either returns or raises; a raise   *)
(* inside the try block lands in the `except Exception` handler.  The      *)
(* handler itself (st.error, time.sleep) and time.sleep are taken to       *)
(* return.                                                                 *)
(*                                                                         *)
(* Prices are small integers, the moving averages are compared as exact    *)
(* fractions (sum/window); on such inputs the float64 means of pandas      *)
(* order the same way.  The price column of the summary rows and of the    *)
(* alert text is a formatting of the last close and is left out.  The      *)
(* loop's locals (data, Signal, latest_signal, signal_text) are dead once  *)
(* the loop moves to the next symbol and are cleared there.                *)
(***************************************************************************)
EXTENDS Integers, Sequences, FiniteSets, TLC

\* ------------------------------------------------------------- bounds
MaxBars == 3        \* longest price series the source returns
ShortWindow == 2    \* ma_short of the run
LongWindow == 3     \* ma_long of the run
MaxWindow == 4      \* EngineSpec: both windows are drawn from 1..MaxWindow

\* ------------------------------------------------------ configuration
\* advanced: the default text of the symbols input, split and upper-cased
symbols == << "RELIANCE.NS", "TCS.NS", "HDFCBANK.NS" >>
\* basic: the default text of the symbol input
symbol == "RELIANCE.NS"

Apps == { "advanced", "basic" }
SymbolsOf(a) == IF a = "advanced" THEN { symbols[k] : k \in 1..Len(symbols) }
                ELSE { symbol }
\* two price levels are enough for a short mean above, below and equal to
\* the long mean
Prices == { 1, 2 }
\* the closes of the worked example: with windows 2 and 4 the last bar has
\* short mean 19 and long mean 17
ExampleCloses == << 10, 10, 10, 12, 14, 16, 18, 20 >>
\* the non-empty frames yf.download can return (their Close column)
Series == UNION { [1..n -> Prices] : n \in 1..MaxBars } \cup { ExampleCloses }

VARIABLES
    app,                 \* which script runs
    ma_short, ma_long,   \* sidebar number inputs
    pc,                  \* position in the while loop
    i,                   \* advanced: index of `symbol` in `symbols`
    data,                \* Close column of the current DataFrame, <<>> if empty
    Signal,              \* data["Signal"], <<>> until computed
    latest_signal,       \* data["Signal"].iloc[-1]
    signal_text,         \* advanced signal_text / basic status
    summary_data,        \* advanced: rows of this cycle's table
    last_signal_status,  \* advanced: symbol -> last stored signal
    \* ---- what the collaborators have seen in the current cycle
    notified,            \* notification.notify calls: symbol, text, delivered
    charted,             \* symbols whose st.plotly_chart call returned
    published,           \* the table (advanced) / the metric (basic) is shown
    table,               \* rows handed to signal_placeholder.dataframe
    warned,              \* symbols given to st.warning
    raised,              \* the step whose exception reached the handler
    \* ---- the environment and history of the run
    nodata,              \* symbols whose download came back empty in this cycle
    missed,              \* symbols the source had data for that a cut-short
                         \* cycle did not reach
    prev_status,         \* last_signal_status at the start of the cycle
    sig,                 \* symbol -> its latest signal computed in this cycle
    last_seen,           \* symbols[1] -> latest signal of its last observation
    gap,                 \* symbols[1] had no data in a cycle since that observation
    scen,                \* progress of symbols[1] through Scenario, -1: left it
    scen_alerts          \* observations of Scenario at which notify was called

progvars == << app, ma_short, ma_long, pc, i, data, Signal, latest_signal,
               signal_text, summary_data, last_signal_status >>
logvars == << notified, charted, published, table, warned, raised >>
histvars == << nodata, missed, prev_status, sig, last_seen, gap, scen, scen_alerts >>
vars == << progvars, logvars, histvars >>

\* the empty dict
EmptyDict == [s \in {} |-> 0]
\* dict[key] = value
DictSet(d, key, value) ==
    [s \in DOMAIN d \cup {key} |-> IF s = key THEN value ELSE d[s]]

\* ------------------------------------------------- the signal engine
RECURSIVE SumCloses(_, _, _)
\* sum of closes[lo..hi]
SumCloses(closes, lo, hi) ==
    IF lo > hi THEN 0 ELSE closes[lo] + SumCloses(closes, lo + 1, hi)

\* Series.rolling(w).mean() at bar k is NaN until w bars are there
RollingDefined(w, k) == k >= w
\* the window sum whose quotient by w is the rolling mean at bar k
RollingSum(closes, w, k) == SumCloses(closes, k - w + 1, k)

\* mutant of ShortAbove: the window sums are compared, not the means
ShortAboveSums(closes, s, l, k) ==
    /\ RollingDefined(s, k) /\ RollingDefined(l, k)
    /\ RollingSum(closes, s, k) > RollingSum(closes, l, k)

\* data["SMA_short"] > data["SMA_long"] at bar k; a comparison with NaN is False
ShortAbove(closes, s, l, k) ==
    /\ RollingDefined(s, k) /\ RollingDefined(l, k)
    /\ RollingSum(closes, s, k) * l > RollingSum(closes, l, k) * s
\* mutant of ShortBelow: <= in place of <
ShortBelowOrEqual(closes, s, l, k) ==
    /\ RollingDefined(s, k) /\ RollingDefined(l, k)
    /\ RollingSum(closes, s, k) * l <= RollingSum(closes, l, k) * s

\* data["SMA_short"] < data["SMA_long"] at bar k
ShortBelow(closes, s, l, k) ==
    /\ RollingDefined(s, k) /\ RollingDefined(l, k)
    /\ RollingSum(closes, s, k) * l < RollingSum(closes, l, k) * s

\* mutant of SignalColumn: every bar that is not a buy is a sell
SignalColumnTwoWay(closes, s, l) ==
    [k \in 1..Len(closes) |-> IF ShortAbove(closes, s, l, k) THEN 1 ELSE -1]

\* data["Signal"] = 0, then 1 where short > long, then -1 where short < long
SignalColumn(closes, s, l) ==
    [k \in 1..Len(closes) |->
        IF ShortBelow(closes, s, l, k) THEN -1
        ELSE IF ShortAbove(closes, s, l, k) THEN 1
        ELSE 0]

\* mutant of SignalText: signal 0 gets a label of its own
SignalTextThreeWay(latest) ==
    IF latest = 1 THEN "BUY" ELSE IF latest = -1 THEN "SELL" ELSE "HOLD"

\* "BUY" if latest_signal == 1 else "SELL"
SignalText(latest) == IF latest = 1 THEN "BUY" ELSE "SELL"

\* ---------------------------------------------------------------- Init
Init ==
    /\ app \in Apps
    /\ ma_short = ShortWindow
    /\ ma_long = LongWindow
    /\ pc = "loop"
    /\ i = 0
    /\ data = << >>
    /\ Signal = << >>
    /\ latest_signal = 0
    /\ signal_text = ""
    /\ summary_data = << >>
    /\ last_signal_status = EmptyDict
    /\ notified = << >>
    /\ charted = << >>
    /\ published = FALSE
    /\ table = << >>
    /\ warned = {}
    /\ raised = "none"
    /\ nodata = {}
    /\ missed = {}
    /\ prev_status = EmptyDict
    /\ sig = EmptyDict
    /\ last_seen = EmptyDict /\ gap = FALSE
    /\ scen = 0
    /\ scen_alerts = {}


\* ------------------------------------------- history of the observations
\* the five observations of the scenario: Undetermined, Undetermined,
\* Bullish, Bullish, Bearish
Scenario == << 0, 0, 1, 1, -1 >>
ScenRunning == i = 1 /\ scen \in 0..(Len(Scenario) - 1)
\* a cycle of the scenario's symbol that ends before its observation
ScenMissed ==
    IF ScenRunning THEN scen' = -1 /\ scen_alerts' = {}
    ELSE UNCHANGED << scen, scen_alerts >>
\* an observation of the scenario's symbol; `called`: notify was called
ScenObserved(called) ==
    IF ~ScenRunning THEN UNCHANGED << scen, scen_alerts >>
    ELSE IF latest_signal # Scenario[scen + 1] THEN scen' = -1 /\ scen_alerts' = {}
    ELSE /\ scen' = scen + 1
         /\ scen_alerts' = IF called THEN scen_alerts \cup {scen + 1} ELSE scen_alerts

\* the latest signal of the last observation of symbols[1]
SeenObserved ==
    /\ last_seen' = IF i = 1 THEN DictSet(last_seen, symbols[i], latest_signal)
                    ELSE last_seen
    /\ gap' = IF i = 1 THEN FALSE ELSE gap

\* symbols[i] has no data in this cycle
SeenNoData ==
    gap' = IF i = 1 /\ symbols[1] \in DOMAIN last_seen THEN TRUE ELSE gap

\* ------------------------------------------------ advanced: the loop
\* mutant of NextSymbol: the loop stops one symbol short
NextSymbolStopsShort ==
    /\ IF i + 1 < Len(symbols) THEN i' = i + 1 /\ pc' = "fetch"
                               ELSE i' = i /\ pc' = "table"
    /\ data' = << >> /\ Signal' = << >>
    /\ latest_signal' = 0 /\ signal_text' = ""

\* for symbol in symbols: the next symbol, or the statement after the loop;
\* the frame of the symbol just left is dead from here on
NextSymbol ==
    /\ IF i < Len(symbols) THEN i' = i + 1 /\ pc' = "fetch"
                           ELSE i' = i /\ pc' = "table"
    /\ data' = << >> /\ Signal' = << >>
    /\ latest_signal' = 0 /\ signal_text' = ""

\* mutant of Continue: the empty frame leaves the loop (break)
ContinueAsBreak ==
    /\ i' = i /\ pc' = "table"
    /\ data' = << >> /\ Signal' = << >>
    /\ latest_signal' = 0 /\ signal_text' = ""

\* if data.empty: continue
Continue == NextSymbol

\* an exception inside the try block reaches `except Exception as e`;
\* the handler reads none of the loop's locals.  The symbols after the
\* current one are not fetched in this cycle: `missed` is drawn as those of
\* them the source had data for
Raise(step) ==
    /\ pc' = "except"
    /\ raised' = step
    /\ data' = << >> /\ Signal' = << >>
    /\ latest_signal' = 0 /\ signal_text' = ""
    /\ missed' \in SUBSET { symbols[k] : k \in (i + 1)..Len(symbols) }

\* while True: try: summary_data = []; for symbol in symbols
StartCycle ==
    /\ app = "advanced" /\ pc = "loop"
    /\ summary_data' = << >>
    /\ IF Len(symbols) > 0 THEN i' = 1 /\ pc' = "fetch" ELSE i' = 0 /\ pc' = "table"
    /\ data' = << >> /\ Signal' = << >> /\ latest_signal' = 0 /\ signal_text' = ""
    /\ notified' = << >> /\ charted' = << >> /\ published' = FALSE
    /\ table' = << >> /\ warned' = {} /\ raised' = "none"
    /\ nodata' = {} /\ missed' = {}
    /\ prev_status' = last_signal_status
    /\ sig' = EmptyDict
    /\ UNCHANGED << app, ma_short, ma_long, last_signal_status, last_seen, gap,
                    scen, scen_alerts >>

\* data = yf.download(...) returns bars
DownloadData ==
    /\ app = "advanced" /\ pc = "fetch"
    /\ \E d \in Series : data' = d
    /\ pc' = "compute"
    /\ UNCHANGED << app, ma_short, ma_long, i, Signal, latest_signal, signal_text,
                    summary_data, last_signal_status, logvars, histvars >>

\* data = yf.download(...) returns an empty frame: continue
DownloadEmpty ==
    /\ app = "advanced" /\ pc = "fetch"
    /\ nodata' = nodata \cup { symbols[i] }
    /\ Continue
    /\ ScenMissed
    /\ SeenNoData
    /\ UNCHANGED << app, ma_short, ma_long,
                    summary_data, last_signal_status, logvars,
                    missed, prev_status, sig, last_seen >>

\* yf.download raises
DownloadRaises ==
    /\ app = "advanced" /\ pc = "fetch"
    /\ Raise("fetch")
    /\ ScenMissed
    /\ UNCHANGED << app, ma_short, ma_long, i, summary_data, last_signal_status,
                    notified, charted, published, table, warned,
                    nodata, prev_status, sig, last_seen, gap >>

\* mutant of AppendRow: summary_data.insert(0, row)
PrependRow(rows, row) == << row >> \o rows

\* summary_data.append(row)
AppendRow(rows, row) == Append(rows, row)

\* the moving averages, the Signal column, latest_signal, signal_text and
\* the row appended to summary_data
ComputeSignals ==
    /\ app = "advanced" /\ pc = "compute"
    /\ Signal' = SignalColumn(data, ma_short, ma_long)
    /\ latest_signal' = Signal'[Len(data)]
    /\ signal_text' = SignalText(latest_signal')
    /\ summary_data' = AppendRow(summary_data,
                                 [Stock |-> symbols[i], Signal |-> signal_text'])
    /\ sig' = DictSet(sig, symbols[i], latest_signal')
    /\ pc' = "alert"
    /\ UNCHANGED << app, ma_short, ma_long, i, data, last_signal_status, logvars,
                    nodata, missed, prev_status, last_seen, gap, scen, scen_alerts >>

\* the pandas computation raises before the row is appended
ComputeRaises ==
    /\ app = "advanced" /\ pc = "compute"
    /\ Raise("compute")
    /\ ScenMissed
    /\ UNCHANGED << app, ma_short, ma_long, i, summary_data, last_signal_status,
                    notified, charted, published, table, warned,
                    nodata, prev_status, sig, last_seen, gap >>

\* mutant of SignalChanged: last_signal_status.get(symbol) != latest_signal
SignalChangedOrNew(d, s, latest) == s \notin DOMAIN d \/ d[s] # latest

\* symbol in last_signal_status and last_signal_status[symbol] != latest_signal
SignalChanged(d, s, latest) == s \in DOMAIN d /\ d[s] # latest

\* mutant of StoreSignal: the store is written only when the signal changed
StoreOnlyOnChange ==
    last_signal_status' =
        IF SignalChanged(last_signal_status, symbols[i], latest_signal)
        THEN DictSet(last_signal_status, symbols[i], latest_signal)
        ELSE last_signal_status

\* last_signal_status[symbol] = latest_signal
StoreSignal == last_signal_status' = DictSet(last_signal_status, symbols[i], latest_signal)

\* the signal did not change (or the symbol is new): no notify, store
AlertNotNeeded ==
    /\ app = "advanced" /\ pc = "alert"
    /\ ~SignalChanged(last_signal_status, symbols[i], latest_signal)
    /\ StoreSignal
    /\ pc' = "chart"
    /\ SeenObserved
    /\ ScenObserved(FALSE)
    /\ UNCHANGED << app, ma_short, ma_long, i, data, Signal, latest_signal,
                    signal_text, summary_data, logvars, nodata, missed, prev_status, sig >>

\* the signal changed: notification.notify returns, then store
AlertDelivered ==
    /\ app = "advanced" /\ pc = "alert"
    /\ SignalChanged(last_signal_status, symbols[i], latest_signal)
    /\ notified' = Append(notified, [symbol |-> symbols[i], text |-> signal_text,
                                     delivered |-> TRUE])
    /\ StoreSignal
    /\ pc' = "chart"
    /\ SeenObserved
    /\ ScenObserved(TRUE)
    /\ UNCHANGED << app, ma_short, ma_long, i, data, Signal, latest_signal,
                    signal_text, summary_data, charted, published, table, warned,
                    raised, nodata, missed, prev_status, sig >>

\* mutant of AlertRaises: the store is written before notify is called
AlertRaisesAfterStore ==
    /\ app = "advanced" /\ pc = "alert"
    /\ SignalChanged(last_signal_status, symbols[i], latest_signal)
    /\ notified' = Append(notified, [symbol |-> symbols[i], text |-> signal_text,
                                     delivered |-> FALSE])
    /\ StoreSignal
    /\ Raise("alert")
    /\ SeenObserved
    /\ ScenObserved(TRUE)
    /\ UNCHANGED << app, ma_short, ma_long, i, summary_data,
                    charted, published, table, warned, nodata, prev_status, sig >>

\* the signal changed: notification.notify raises, the store is not reached
AlertRaises ==
    /\ app = "advanced" /\ pc = "alert"
    /\ SignalChanged(last_signal_status, symbols[i], latest_signal)
    /\ notified' = Append(notified, [symbol |-> symbols[i], text |-> signal_text,
                                     delivered |-> FALSE])
    /\ Raise("alert")
    /\ SeenObserved
    /\ ScenObserved(TRUE)
    /\ UNCHANGED << app, ma_short, ma_long, i, summary_data, last_signal_status,
                    charted, published, table, warned, nodata, prev_status, sig >>

\* st.plotly_chart(plot_chart(data, symbol), ...) returns; next symbol
ChartShown ==
    /\ app = "advanced" /\ pc = "chart"
    /\ charted' = Append(charted, symbols[i])
    /\ NextSymbol
    /\ UNCHANGED << app, ma_short, ma_long,
                    summary_data, last_signal_status,
                    notified, published, table, warned, raised, histvars >>

\* plot_chart or st.plotly_chart raises
ChartRaises ==
    /\ app = "advanced" /\ pc = "chart"
    /\ Raise("chart")
    /\ UNCHANGED << app, ma_short, ma_long, i, summary_data, last_signal_status,
                    notified, charted, published, table, warned,
                    nodata, prev_status, sig, last_seen, gap, scen, scen_alerts >>

\* signal_df = pd.DataFrame(summary_data); subheader; dataframe
PublishTable ==
    /\ app = "advanced" /\ pc = "table"
    /\ table' = summary_data
    /\ published' = TRUE
    /\ pc' = "sleep"
    /\ UNCHANGED << app, ma_short, ma_long, i, data, Signal, latest_signal,
                    signal_text, summary_data, last_signal_status,
                    notified, charted, warned, raised, histvars >>

\* building or showing the table raises
TableRaises ==
    /\ app = "advanced" /\ pc = "table"
    /\ Raise("table")
    /\ UNCHANGED << app, ma_short, ma_long, i, summary_data, last_signal_status,
                    notified, charted, published, table, warned,
                    nodata, prev_status, sig, last_seen, gap, scen, scen_alerts >>

\* time.sleep(refresh_sec) at the end of the try block
Sleep ==
    /\ app = "advanced" /\ pc = "sleep"
    /\ pc' = "loop"
    /\ UNCHANGED << app, ma_short, ma_long, i, data, Signal, latest_signal,
                    signal_text, summary_data, last_signal_status,
                    logvars, histvars >>

\* mutant of AfterReport: the handler does not sleep
AfterReportNoSleep == pc' = "loop"

\* where the handler goes after st.error: its own time.sleep
AfterReport == pc' = "except_sleep"

\* except Exception as e: st.error(...)
ReportError ==
    /\ app = "advanced" /\ pc = "except"
    /\ AfterReport
    /\ UNCHANGED << app, ma_short, ma_long, i, data, Signal, latest_signal,
                    signal_text, summary_data, last_signal_status,
                    logvars, histvars >>

\* time.sleep(refresh_sec) in the handler
SleepAfterError ==
    /\ app = "advanced" /\ pc = "except_sleep"
    /\ pc' = "loop"
    /\ UNCHANGED << app, ma_short, ma_long, i, data, Signal, latest_signal,
                    signal_text, summary_data, last_signal_status,
                    logvars, histvars >>

Advanced ==
    \/ StartCycle
    \/ DownloadData
    \/ DownloadEmpty
    \/ DownloadRaises
    \/ ComputeSignals
    \/ ComputeRaises
    \/ AlertNotNeeded
    \/ AlertDelivered
    \/ AlertRaises
    \/ ChartShown
    \/ ChartRaises
    \/ PublishTable
    \/ TableRaises
    \/ Sleep
    \/ ReportError
    \/ SleepAfterError

\* ------------------------------------------------------ basic: the loop
\* while True: try
BStartCycle ==
    /\ app = "basic" /\ pc = "loop"
    /\ pc' = "fetch"
    /\ data' = << >> /\ Signal' = << >> /\ latest_signal' = 0 /\ signal_text' = ""
    /\ notified' = << >> /\ charted' = << >> /\ published' = FALSE
    /\ table' = << >> /\ warned' = {} /\ raised' = "none"
    /\ nodata' = {} /\ missed' = {}
    /\ sig' = EmptyDict
    /\ UNCHANGED << app, ma_short, ma_long, i, summary_data, last_signal_status,
                    prev_status, last_seen, gap, scen, scen_alerts >>

\* data = yf.download(...) returns bars
BDownloadData ==
    /\ app = "basic" /\ pc = "fetch"
    /\ \E d \in Series : data' = d
    /\ pc' = "compute"
    /\ UNCHANGED << app, ma_short, ma_long, i, Signal, latest_signal, signal_text,
                    summary_data, last_signal_status, logvars, histvars >>

\* if data.empty: st.warning(...), then time.sleep and continue
BDownloadEmpty ==
    /\ app = "basic" /\ pc = "fetch"
    /\ data' = << >>
    /\ nodata' = nodata \cup { symbol }
    /\ warned' = warned \cup { symbol }
    /\ pc' = "warn_sleep"
    /\ UNCHANGED << app, ma_short, ma_long, i, Signal, latest_signal, signal_text,
                    summary_data, last_signal_status,
                    notified, charted, published, table, raised,
                    missed, prev_status, sig, last_seen, gap, scen, scen_alerts >>

\* time.sleep(refresh_sec); continue, after the warning
BSleepAfterWarning ==
    /\ app = "basic" /\ pc = "warn_sleep"
    /\ pc' = "loop"
    /\ UNCHANGED << app, ma_short, ma_long, i, data, Signal, latest_signal,
                    signal_text, summary_data, last_signal_status,
                    logvars, histvars >>

\* an exception inside the try block reaches `except Exception as e`;
\* the handler reads none of the loop's locals
BRaise(step) ==
    /\ pc' = "except"
    /\ raised' = step
    /\ data' = << >> /\ Signal' = << >>
    /\ latest_signal' = 0 /\ signal_text' = ""
    /\ UNCHANGED << app, ma_short, ma_long, i, summary_data, last_signal_status,
                    notified, charted, published, table, warned, histvars >>

\* yf.download raises
BDownloadRaises == app = "basic" /\ pc = "fetch" /\ BRaise("fetch")

\* the moving averages, the Signal column, latest_signal and status
BComputeSignals ==
    /\ app = "basic" /\ pc = "compute"
    /\ Signal' = SignalColumn(data, ma_short, ma_long)
    /\ latest_signal' = Signal'[Len(data)]
    /\ signal_text' = SignalText(latest_signal')
    /\ sig' = DictSet(sig, symbol, latest_signal')
    /\ pc' = "metric"
    /\ UNCHANGED << app, ma_short, ma_long, i, data, summary_data,
                    last_signal_status, logvars,
                    nodata, missed, prev_status, last_seen, gap, scen, scen_alerts >>

\* the pandas computation raises
BComputeRaises == app = "basic" /\ pc = "compute" /\ BRaise("compute")

\* status_placeholder.metric(...)
BShowMetric ==
    /\ app = "basic" /\ pc = "metric"
    /\ published' = TRUE
    /\ pc' = "chart"
    /\ UNCHANGED << app, ma_short, ma_long, i, data, Signal, latest_signal,
                    signal_text, summary_data, last_signal_status,
                    notified, charted, table, warned, raised, histvars >>

\* status_placeholder.metric raises
BMetricRaises == app = "basic" /\ pc = "metric" /\ BRaise("metric")

\* the figure is built and chart_placeholder.plotly_chart(...) returns
BChartShown ==
    /\ app = "basic" /\ pc = "chart"
    /\ charted' = Append(charted, symbol)
    /\ pc' = "sleep"
    /\ UNCHANGED << app, ma_short, ma_long, i, data, Signal, latest_signal,
                    signal_text, summary_data, last_signal_status,
                    notified, published, table, warned, raised, histvars >>

\* building or showing the figure raises
BChartRaises == app = "basic" /\ pc = "chart" /\ BRaise("chart")

\* time.sleep(refresh_sec) at the end of the try block
BSleep ==
    /\ app = "basic" /\ pc = "sleep"
    /\ pc' = "loop"
    /\ UNCHANGED << app, ma_short, ma_long, i, data, Signal, latest_signal,
                    signal_text, summary_data, last_signal_status,
                    logvars, histvars >>

\* where the handler goes after st.error: its own time.sleep
BAfterReport == pc' = "except_sleep"

\* except Exception as e: st.error(...)
BReportError ==
    /\ app = "basic" /\ pc = "except"
    /\ BAfterReport
    /\ UNCHANGED << app, ma_short, ma_long, i, data, Signal, latest_signal,
                    signal_text, summary_data, last_signal_status,
                    logvars, histvars >>

\* time.sleep(refresh_sec) in the handler
BSleepAfterError ==
    /\ app = "basic" /\ pc = "except_sleep"
    /\ pc' = "loop"
    /\ UNCHANGED << app, ma_short, ma_long, i, data, Signal, latest_signal,
                    signal_text, summary_data, last_signal_status,
                    logvars, histvars >>

Basic ==
    \/ BStartCycle
    \/ BDownloadData
    \/ BDownloadEmpty
    \/ BSleepAfterWarning
    \/ BDownloadRaises
    \/ BComputeSignals
    \/ BComputeRaises
    \/ BShowMetric
    \/ BMetricRaises
    \/ BChartShown
    \/ BChartRaises
    \/ BSleep
    \/ BReportError
    \/ BSleepAfterError

Next == Advanced \/ Basic

Spec == Init /\ [][Next]_vars

\* the script is one thread: it always runs its next statement
FairSpec == Spec /\ WF_vars(Next)

\* the basic dashboard started with any pair of windows set in the sidebar
EngineInit ==
    /\ app = "basic"
    /\ ma_short \in 1..MaxWindow
    /\ ma_long \in 1..MaxWindow
    /\ pc = "loop"
    /\ i = 0
    /\ data = << >> /\ Signal = << >> /\ latest_signal = 0 /\ signal_text = ""
    /\ summary_data = << >>
    /\ last_signal_status = EmptyDict
    /\ notified = << >> /\ charted = << >> /\ published = FALSE
    /\ table = << >> /\ warned = {} /\ raised = "none"
    /\ nodata = {} /\ missed = {}
    /\ prev_status = EmptyDict /\ sig = EmptyDict /\ last_seen = EmptyDict /\ gap = FALSE
    /\ scen = 0 /\ scen_alerts = {}

EngineSpec == EngineInit /\ [][Basic]_vars

\* ================================================================ claims
Configured == SymbolsOf(app)
\* the notify calls of this cycle made for symbol s
Calls(s) == { k \in 1..Len(notified) : notified[k].symbol = s }
\* s had data in this cycle and its alert step (lines 102-108) has run
AlertDone(s) ==
    /\ app = "advanced"
    /\ s \in DOMAIN sig
    /\ ~(pc = "alert" /\ symbols[i] = s)
\* the symbols with data in this cycle, in declaration order
WithData == SelectSeq(symbols, LAMBDA s : s \in DOMAIN sig)
SleepPcs == { "sleep", "except_sleep", "warn_sleep" }

\* C1 -- cold start: a symbol with no entry in the store at the start of
\* the cycle, once its alert step has run, has had no notify call in this
\* cycle and is stored with the signal computed for it, whatever it is.
C1_ColdStart ==
    \A s \in Configured :
        (AlertDone(s) /\ s \notin DOMAIN prev_status) =>
            /\ Calls(s) = {}
            /\ s \in DOMAIN last_signal_status
            /\ last_signal_status[s] = sig[s]

\* three symbols observed for the first time in one cycle, one in each state
C1_Witness ==
    /\ app = "advanced"
    /\ prev_status = EmptyDict
    /\ \A s \in Configured : AlertDone(s)
    /\ sig[symbols[1]] = 1 /\ sig[symbols[2]] = 0 /\ sig[symbols[3]] = -1
    /\ last_signal_status = sig
    /\ notified = << >>

\* C2 -- transition: a symbol stored Bullish whose latest state is Bearish
\* (or the reverse), once its alert step has run, has had exactly one notify
\* call in this cycle, with the label of the new state, and is stored with
\* the new state.
C2_Transition ==
    \A s \in Configured :
        (/\ AlertDone(s)
         /\ s \in DOMAIN prev_status
         /\ { prev_status[s], sig[s] } = { 1, -1 }) =>
            /\ Cardinality(Calls(s)) = 1
            /\ \A k \in Calls(s) : notified[k].text = SignalText(sig[s])
            /\ last_signal_status[s] = sig[s]

\* C3 -- idempotence, for the first configured symbol: when its latest state
\* equals the latest state of its previous observation, the alert step makes
\* no notify call and leaves its stored state as it was.
C3_Idempotent ==
    [][(/\ app = "advanced" /\ pc = "alert" /\ i = 1
        /\ symbols[1] \in DOMAIN last_seen
        /\ last_seen[symbols[1]] = latest_signal) =>
            /\ notified' = notified
            /\ symbols[1] \in DOMAIN last_signal_status
            /\ last_signal_status' = last_signal_status
            /\ last_signal_status[symbols[1]] = latest_signal]_vars

\* C4 -- an observation of Undetermined (signal 0) is stored and never
\* makes a notify call, whatever was stored before.
C4_UndeterminedSilent ==
    \A s \in Configured :
        (AlertDone(s) /\ sig[s] = 0) =>
            /\ Calls(s) = {}
            /\ s \in DOMAIN last_signal_status
            /\ last_signal_status[s] = 0

\* C5 -- a stored Undetermined followed by Bullish or Bearish makes one
\* notify call; and the first symbol, observed from the start of the run in
\* five successive cycles as Scenario, has notify called at exactly the 3rd
\* and the 5th observation.
C5_Scenario ==
    /\ \A s \in Configured :
        (/\ AlertDone(s)
         /\ s \in DOMAIN prev_status
         /\ prev_status[s] = 0 /\ sig[s] # 0) => Cardinality(Calls(s)) = 1
    /\ scen = Len(Scenario) => scen_alerts = { 3, 5 }

\* C6 -- isolation of missing data: an empty download sends the loop on to
\* the next symbol (or past the loop after the last one), and the table
\* published in a cycle has, in declaration order, one row for every
\* configured symbol that was not empty, each of them charted and stored
\* with this cycle's signal.
C6_Isolation ==
    app = "advanced" =>
        /\ \A k \in 1..Len(symbols) :
            symbols[k] \in nodata =>
                \/ i > k
                \/ i = k /\ k = Len(symbols)
                         /\ pc \notin { "fetch", "compute", "alert", "chart" }
        /\ published =>
            /\ nodata \cup DOMAIN sig = Configured
            /\ nodata \cap DOMAIN sig = {}
            /\ table = [k \in 1..Len(WithData) |->
                          [Stock |-> WithData[k],
                           Signal |-> SignalText(sig[WithData[k]])]]
            /\ charted = WithData
            /\ \A s \in DOMAIN sig :
                /\ s \in DOMAIN last_signal_status
                /\ last_signal_status[s] = sig[s]

\* the cycle (A, B, C) with B empty has published A and C
C6_Witness ==
    /\ app = "advanced"
    /\ published
    /\ nodata = { symbols[2] }
    /\ Len(table) = 2
    /\ table[1].Stock = symbols[1] /\ table[2].Stock = symbols[3]
    /\ charted = << symbols[1], symbols[3] >>

\* C7 -- no terminal state, in both dashboards: the top of the loop is
\* reached only out of a time.sleep call, and whatever a cycle does or
\* raises the loop goes on for ever sleeping and fetching again.
C7_LoopForever ==
    /\ [][pc' = "loop" => pc \in SleepPcs]_vars
    /\ []<>(pc \in SleepPcs)
    /\ []<>(pc = "fetch")

\* a cycle cut short by a chart exception has slept and is about to restart
C7_Witness ==
    /\ pc = "loop"
    /\ raised = "chart"

\* C8 -- a notify call that fails stays inside the alert step: nothing
\* reaches the handler from it and the symbol is stored with its new state.
C8_AlertFailureContained ==
    \A k \in 1..Len(notified) :
        ~notified[k].delivered =>
            /\ raised # "alert"
            /\ notified[k].symbol \in DOMAIN last_signal_status
            /\ last_signal_status[notified[k].symbol] = sig[notified[k].symbol]

\* C9 -- a presentation failure leaves the tracked states as a cycle without
\* it would: when a chart or the table raised, every symbol the source had
\* data for in this cycle is stored with its signal of this cycle.
C9_PresentationFrame ==
    (app = "advanced" /\ raised \in { "chart", "table" }) =>
        /\ missed = {}
        /\ \A s \in DOMAIN sig :
            /\ s \in DOMAIN last_signal_status
            /\ last_signal_status[s] = sig[s]

\* C10 -- in both dashboards every symbol whose download came back empty in
\* this cycle has been given to st.warning in this cycle.
C10_NoDataWarned == nodata \subseteq warned

\* every configured symbol has been fetched in this cycle and, if it had
\* data, has had its signal computed and its alert step run
AllProcessed ==
    /\ nodata \cup DOMAIN sig = Configured
    /\ \A s \in DOMAIN sig : AlertDone(s)

Idx(s) == CHOOSE k \in 1..Len(symbols) : symbols[k] = s
\* a sequence of symbols that follows the declaration order
InDeclaredOrder(seq) ==
    \A a, b \in 1..Len(seq) : a < b => Idx(seq[a]) < Idx(seq[b])

\* C12 -- stable order: at any point of a cycle the symbols fetched so far
\* are the first ones of the declared list, the rows, the notify calls and
\* the charts follow the declaration order, and a published table has
\* exactly the symbols that had data, in that order.
C12_StableOrder ==
    app = "advanced" =>
        /\ \A k \in 1..Len(symbols) :
            /\ k < i => symbols[k] \in nodata \cup DOMAIN sig
            /\ k > i => symbols[k] \notin nodata \cup DOMAIN sig
        /\ [k \in 1..Len(summary_data) |-> summary_data[k].Stock] = WithData
        /\ InDeclaredOrder([k \in 1..Len(notified) |-> notified[k].symbol])
        /\ InDeclaredOrder(charted)
        /\ published =>
            /\ [k \in 1..Len(table) |-> table[k].Stock] = WithData
            /\ { WithData[k] : k \in 1..Len(WithData) } = Configured \ nodata

\* a published table of all three symbols, the last two of them alerted
C12_Witness ==
    /\ app = "advanced"
    /\ published
    /\ [k \in 1..Len(table) |-> table[k].Stock] = symbols
    /\ [k \in 1..Len(notified) |-> notified[k].symbol]
         = << symbols[2], symbols[3] >>

\* ---- the moving averages as the specification words them
RECURSIVE TrailingSum(_, _, _)
\* closes[k] + closes[k-1] + ... over the w bars ending at bar k
TrailingSum(closes, w, k) ==
    IF w = 0 THEN 0 ELSE closes[k] + TrailingSum(closes, w - 1, k - 1)
\* the mean over the w bars ending at bar k exists
MeanDefined(w, k) == w <= k
\* mean over s bars ending at k  >  mean over l bars ending at k
MeanAbove(closes, s, l, k) ==
    TrailingSum(closes, s, k) * l > TrailingSum(closes, l, k) * s
\* the two means at bar k exist and are exactly equal
MeansTie(closes, s, l, k) ==
    /\ MeanDefined(s, k) /\ MeanDefined(l, k)
    /\ TrailingSum(closes, s, k) * l = TrailingSum(closes, l, k) * s
\* the loop holds a computed frame of the current symbol
FrameComputed ==
    \/ app = "advanced" /\ pc \in { "alert", "chart" }
    \/ app = "basic" /\ pc \in { "metric", "chart" }

\* C13 -- tie: a latest bar whose two moving averages are defined and equal
\* gets signal 0, and when 0 was also the state stored for the symbol its
\* alert step makes no notify call.
C13_Tie ==
    (/\ app = "advanced" /\ FrameComputed
     /\ MeansTie(data, ma_short, ma_long, Len(data))) =>
        /\ latest_signal = 0
        /\ sig[symbols[i]] = 0
        /\ (/\ pc = "chart"
            /\ symbols[i] \in DOMAIN prev_status
            /\ prev_status[symbols[i]] = 0) => Calls(symbols[i]) = {}

\* a tie observed for a symbol stored Undetermined, past its alert step
C13_Witness ==
    /\ app = "advanced" /\ pc = "chart"
    /\ MeansTie(data, ma_short, ma_long, Len(data))
    /\ symbols[i] \in DOMAIN prev_status
    /\ prev_status[symbols[i]] = 0
    /\ last_signal_status[symbols[i]] = 0
    /\ notified = << >>

\* mean over s bars ending at k  <  mean over l bars ending at k
MeanBelow(closes, s, l, k) ==
    TrailingSum(closes, s, k) * l < TrailingSum(closes, l, k) * s

\* C14 -- in both dashboards a computed frame with fewer bars than ma_long
\* has no bar at which the long moving average is defined, signal 0 at
\* every bar and latest signal 0, the value the tracker is given.
C14_ShortSeries ==
    (FrameComputed /\ Len(data) < ma_long) =>
        /\ \A k \in 1..Len(data) :
            /\ ~RollingDefined(ma_long, k)
            /\ Signal[k] = 0
        /\ Len(Signal) = Len(data)
        /\ latest_signal = 0
        /\ app = "advanced" => sig[symbols[i]] = 0
        /\ (app = "advanced" /\ pc = "chart") => last_signal_status[symbols[i]] = 0

\* a frame long enough for the short window only, stored as Undetermined
C14_Witness ==
    /\ app = "advanced" /\ pc = "chart"
    /\ Len(data) >= ma_short /\ Len(data) < ma_long
    /\ last_signal_status[symbols[i]] = 0

\* C15 -- classification per bar, for every frame and every pair of
\* windows: signal 1 iff both means exist and the short one is greater, -1
\* iff both exist and the short one is smaller, 0 otherwise; and the worked
\* example gives sums 2*19 and 4*17 and signal 1 at its last bar.
C15_Classification ==
    FrameComputed =>
        /\ Len(Signal) = Len(data)
        /\ \A k \in 1..Len(data) :
            LET both == MeanDefined(ma_short, k) /\ MeanDefined(ma_long, k)
            IN /\ Signal[k] = 1 <=> (both /\ MeanAbove(data, ma_short, ma_long, k))
               /\ Signal[k] = -1 <=> (both /\ MeanBelow(data, ma_short, ma_long, k))
               /\ Signal[k] = 0 <=>
                    ~(both /\ (\/ MeanAbove(data, ma_short, ma_long, k)
                               \/ MeanBelow(data, ma_short, ma_long, k)))
        /\ latest_signal = Signal[Len(data)]
        /\ (data = ExampleCloses /\ ma_short = 2 /\ ma_long = 4) =>
            /\ RollingSum(data, ma_short, 8) = 2 * 19
            /\ RollingSum(data, ma_long, 8) = 4 * 17
            /\ Signal[8] = 1

\* the worked example computed with windows 2 and 4
C15_Witness ==
    /\ FrameComputed
    /\ data = ExampleCloses /\ ma_short = 2 /\ ma_long = 4
    /\ latest_signal = 1

\* C16 -- the label is binary in both dashboards: the status label, every
\* summary and table row and every alert read "BUY" exactly when the
\* symbol's latest signal is 1 and "SELL" otherwise, signal 0 included.
C16_BinaryLabel ==
    /\ FrameComputed =>
        /\ signal_text \in { "BUY", "SELL" }
        /\ signal_text = "BUY" <=> latest_signal = 1
        /\ latest_signal \in { 0, -1 } => signal_text = "SELL"
    /\ \A k \in 1..Len(summary_data) :
        /\ summary_data[k].Signal \in { "BUY", "SELL" }
        /\ summary_data[k].Signal = "BUY" <=> sig[summary_data[k].Stock] = 1
    /\ \A k \in 1..Len(table) :
        /\ table[k].Signal \in { "BUY", "SELL" }
        /\ table[k].Signal = "BUY" <=> sig[table[k].Stock] = 1
    /\ \A k \in 1..Len(notified) :
        /\ notified[k].text \in { "BUY", "SELL" }
        /\ notified[k].text = "BUY" <=> sig[notified[k].symbol] = 1
        /\ sig[notified[k].symbol] \in { 0, -1 } => notified[k].text = "SELL"

\* an alert for a new signal 0 went out with the label SELL, and the table
\* shows the same symbol as SELL
C16_Witness ==
    /\ app = "advanced" /\ published
    /\ \E k \in 1..Len(notified) :
        /\ sig[notified[k].symbol] = 0
        /\ notified[k].text = "SELL"
        /\ notified[k].delivered
    /\ \E k \in 1..Len(table) : sig[table[k].Stock] = 0 /\ table[k].Signal = "SELL"

\* C17 -- a fetch that finds no data leaves the store and the alerts as
\* they are; and for the first configured symbol, the first observation
\* after cycles without data makes no notify call when its state equals
\* the state of the last observation before them, and exactly one when it
\* differs.
C17_AcrossGap ==
    [][/\ (app = "advanced" /\ pc = "fetch" /\ nodata' # nodata) =>
            /\ last_signal_status' = last_signal_status
            /\ notified' = notified
       /\ (app = "advanced" /\ pc = "alert" /\ i = 1 /\ gap) =>
            IF last_seen[symbols[1]] = latest_signal
            THEN notified' = notified
            ELSE /\ Len(notified') = Len(notified) + 1
                 /\ notified'[Len(notified')].symbol = symbols[1]]_vars

\* the stored state of s is what it was when the cycle started
StoredAsBefore(s) ==
    IF s \in DOMAIN prev_status
    THEN s \in DOMAIN last_signal_status /\ last_signal_status[s] = prev_status[s]
    ELSE s \notin DOMAIN last_signal_status

\* C18 -- the store is written only in a step in which notify, if called,
\* returned.  After a notify call that raised: the symbol's stored state is
\* the one from before the cycle and differs from its latest signal, no
\* later symbol has been fetched or stored, the symbol has no chart and no
\* table is published; and when the first configured symbol is next
\* observed with that same latest signal, notify is called for it again.
C18_StoreAfterNotify ==
    /\ [](raised = "alert" =>
            /\ app = "advanced" /\ pc \in { "except", "except_sleep", "loop" }
            /\ notified # << >>
            /\ notified[Len(notified)].symbol = symbols[i]
            /\ ~notified[Len(notified)].delivered
            /\ StoredAsBefore(symbols[i])
            /\ last_signal_status[symbols[i]] # sig[symbols[i]]
            /\ i = 1 => last_seen[symbols[1]] = sig[symbols[1]]
            /\ \A k \in (i + 1)..Len(symbols) :
                /\ symbols[k] \notin DOMAIN sig \cup nodata
                /\ StoredAsBefore(symbols[k])
            /\ \A k \in 1..Len(charted) : charted[k] # symbols[i]
            /\ ~published /\ table = << >>)
    /\ [][/\ last_signal_status' # last_signal_status =>
                /\ pc = "alert" /\ pc' = "chart" /\ raised' = "none"
                /\ notified' # notified => notified'[Len(notified')].delivered
          /\ (notified' # notified /\ notified' # << >>
                /\ ~notified'[Len(notified')].delivered) =>
                /\ last_signal_status' = last_signal_status
                /\ raised' = "alert" /\ pc' = "except"
          /\ (/\ app = "advanced" /\ pc = "alert" /\ i = 1
              /\ symbols[1] \in DOMAIN last_seen
              /\ last_seen[symbols[1]] = latest_signal
              /\ symbols[1] \in DOMAIN last_signal_status
              /\ last_signal_status[symbols[1]] # latest_signal) =>
                /\ Len(notified') = Len(notified) + 1
                /\ notified'[Len(notified')].symbol = symbols[1]]_vars

\* the cycle after a failed notify: the first symbol has the same latest
\* signal again and its stored state is still the old one
C18_Witness ==
    /\ app = "advanced" /\ pc = "alert" /\ i = 1 /\ ~gap
    /\ symbols[1] \in DOMAIN last_seen
    /\ last_seen[symbols[1]] = latest_signal
    /\ symbols[1] \in DOMAIN last_signal_status
    /\ last_signal_status[symbols[1]] # latest_signal

\* the keys of the store are configured symbols, its values are signals
StoreWellFormed ==
    /\ DOMAIN last_signal_status \subseteq Configured
    /\ \A s \in DOMAIN last_signal_status : last_signal_status[s] \in { 1, 0, -1 }

\* the alert step of s has run to its end in this cycle
StepCompleted(s) == AlertDone(s) /\ ~(raised = "alert" /\ symbols[i] = s)

\* C19, as stated -- the store is well formed, and a symbol that had data in
\* a cycle whose alert step did not fail has an entry: so it has, when the
\* computation on its data raised and the alert step was never reached.
C19_EntryIffData ==
    /\ StoreWellFormed
    /\ \A s \in DOMAIN sig : StepCompleted(s) => last_signal_status[s] = sig[s]
    /\ (app = "advanced" /\ raised = "compute") =>
            symbols[i] \in DOMAIN last_signal_status

\* C19 -- tracker invariant: the store starts empty; its keys are configured
\* symbols and its values are in {1, 0, -1}; once a symbol's alert step has
\* run to its end the stored value is its latest signal of this cycle; an
\* entry is added exactly by an alert step that runs to its end, for its own
\* symbol, and no entry is ever removed.
C19_Tracker ==
    /\ DOMAIN last_signal_status = {}
    /\ [](/\ StoreWellFormed
          /\ \A s \in DOMAIN sig :
                StepCompleted(s) =>
                    /\ s \in DOMAIN last_signal_status
                    /\ last_signal_status[s] = sig[s])
    /\ [][/\ DOMAIN last_signal_status \subseteq DOMAIN last_signal_status'
          /\ (pc = "alert" /\ pc' = "chart") =>
                /\ DOMAIN last_signal_status' =
                        DOMAIN last_signal_status \cup { symbols[i] }
                /\ last_signal_status'[symbols[i]] = latest_signal
          /\ ~(pc = "alert" /\ pc' = "chart") =>
                DOMAIN last_signal_status' = DOMAIN last_signal_status]_vars

\* the second symbol has never completed an alert step and has no entry,
\* the other two have; its computation raised in this cycle
C19_Witness ==
    /\ app = "advanced"
    /\ DOMAIN last_signal_status = { symbols[1], symbols[3] }
    /\ raised = "compute" /\ i = 2

============================================================================
